---- MODULE Spec2Model ----
(***************************************************************************)
(* Model of run_migration.py: main() driving a CloudMigrationPipeline.     *)
(*                                                                         *)
(* main() is modelled step by step, one action per pipeline call it makes  *)
(* together with the straight-line code that follows the call.  The        *)
(* pipeline class itself (src/migration_pipeline.py) is not part of the    *)
(* sources at hand; its methods are modelled from the specification        *)
(* (sections 4.1 - 4.5) and are the actions whose names start with M, plus *)
(* the outcomes of connect_to_source_db and validate_migration.            *)
(*                                                                         *)
(* Two specifications:                                                     *)
(*   Spec     the pipeline honours its contract: connect_to_source_db      *)
(*            returns a boolean, validate_migration returns a well-formed  *)
(*            result, run_migration returns a boolean; only the            *)
(*            constructor may raise (ConfigError).                         *)
(*   SpecAny  as Spec, and any pipeline call may also raise, and           *)
(*            validate_migration may return a result lacking a key.        *)
(***************************************************************************)
EXTENDS Integers, Sequences, FiniteSets, TLC

\* Bounds of the model.
MaxTables == 3
MaxNames == 2

\* Table identifiers that a configuration can hold.
Tables == 1 .. MaxTables
\* Names that --tables can give; MaxTables + 1 is a name no configuration holds.
Names == 1 .. (MaxTables + 1)

VARIABLES
    config,             \* the data-source list CloudMigrationPipeline(args.config) resolves
    args,               \* the parsed command line: validate_only, tables (None or a list)
    pc,                 \* main()'s position
    data_sources,       \* pipeline.data_sources, the active list
    idx,                \* position of the running for-loop in data_sources
    validation_results, \* main()'s local list (validate-only mode)
    exit_code,          \* what main() returned (-1: not yet returned)
    raised,             \* an exception reached main()'s except clause
    called,             \* the pipeline methods main() has called
    connected,          \* "unknown", "yes", "no": the source connection
    tstate,             \* per-table state of section 4.1's state machine
    ops,                \* the component operations performed: <<operation, table>>
    migration_results,  \* the pipeline's MigrationResults (full-migration mode)
    target,             \* the tables the target store holds data of
    cur_ok,             \* the in-flight table's load succeeded
    run_result          \* what run_migration() returned

vars == << config, args, pc, data_sources, idx, validation_results, exit_code,
           raised, called, connected, tstate, ops, migration_results, target,
           cur_ok, run_result >>

Range(s) == { s[i] : i \in 1 .. Len(s) }

RECURSIVE SeqsUpTo(_, _)
SeqsUpTo(S, n) ==
    IF n = 0 THEN { <<>> }
    ELSE LET shorter == SeqsUpTo(S, n - 1)
         IN  shorter \cup { Append(s, x) : s \in shorter, x \in S }

Injective(s) == \A i, j \in 1 .. Len(s) : s[i] = s[j] => i = j

\* One entry per table to migrate, in config-declared order.
Configs == { s \in SeqsUpTo(Tables, MaxTables) : Injective(s) }

\* --tables has nargs='+': absent (None), or a list of at least one name.
TableArgs ==
    { [given |-> FALSE, names |-> <<>>] }
    \cup { [given |-> TRUE, names |-> s] : s \in SeqsUpTo(Names, MaxNames) \ { <<>> } }

ArgSet == [ validate_only : BOOLEAN, tables : TableArgs ]

\* The values main() returns.
ExitOk == 0
ExitFail == 1

\* `return 1` of the except clause.
ExceptReturnSwallow == ExitOk
ExceptReturn == ExitFail

\* `if args.tables:` None and the empty list are both falsy.
TruthyAlways(tables) == TRUE
Truthy(tables) == tables.given /\ Len(tables.names) > 0

\* [s for s in all_sources if s['table'] in args.tables]
\* (variants: iterating over the names; one copy of an entry per matching name)
FilterSourcesByArgOrder(all_sources, names) ==
    SelectSeq(names, LAMBDA n : n \in Range(all_sources))
RECURSIVE FilterSourcesPerName(_, _)
FilterSourcesPerName(all_sources, names) ==
    IF all_sources = <<>> THEN <<>>
    ELSE SelectSeq(names, LAMBDA n : n = Head(all_sources))
         \o FilterSourcesPerName(Tail(all_sources), names)
FilterSources(all_sources, names) ==
    SelectSeq(all_sources, LAMBDA s : s \in Range(names))

\* `if args.validate_only:` ... `else:`
ModeBranchAlwaysRun(validate_only) == "run"
ModeBranch(validate_only) == IF validate_only THEN "connect" ELSE "run"

\* `for source in pipeline.data_sources:` is over once every entry was visited.
LoopDoneEarly(i, sources) == i >= Len(sources)
LoopDone(i, sources) == i > Len(sources)

\* r.get('validation_passed', False)
GetPassedDefaultTrue(r) == IF r.has_passed THEN r.validation_passed ELSE TRUE
GetPassed(r) == IF r.has_passed THEN r.validation_passed ELSE FALSE

\* all(r.get('validation_passed', False) for r in validation_results)
AnyPassed(results) == \E i \in 1 .. Len(results) : GetPassed(results[i])
AllPassed(results) == \A i \in 1 .. Len(results) : GetPassed(results[i])

\* [r['table_name'] for r in validation_results if not r.get(...)] raises KeyError
\* when a failing result has no table_name key.
FailedListRaises(results) ==
    \E i \in 1 .. Len(results) : ~GetPassed(results[i]) /\ ~results[i].has_name

\* A ValidationResult as validate_migration returns it when it honours its contract.
WellFormed(t, passed) ==
    [ table_name |-> t, has_name |-> TRUE, validation_passed |-> passed, has_passed |-> TRUE ]

\* Results that lack a key.
Malformed(t) ==
    { [ table_name |-> t, has_name |-> FALSE, validation_passed |-> FALSE, has_passed |-> TRUE ],
      [ table_name |-> t, has_name |-> TRUE, validation_passed |-> FALSE, has_passed |-> FALSE ] }

Init ==
    /\ config \in Configs
    /\ args \in ArgSet
    /\ pc = "start"
    /\ data_sources = <<>>
    /\ idx = 1
    /\ validation_results = <<>>
    /\ exit_code = -1
    /\ raised = FALSE
    /\ called = {}
    /\ connected = "unknown"
    /\ tstate = [ t \in Tables |-> "pending" ]
    /\ ops = {}
    /\ migration_results = <<>>
    /\ target = {}
    /\ cur_ok = TRUE
    /\ run_result = FALSE

\* The table the running loop is at.
Current == data_sources[idx]

\* Tables of the active list that have not been started.
SkipPending(ts, sources) ==
    [ t \in Tables |-> IF t \in Range(sources) /\ ts[t] = "pending" THEN "skipped" ELSE ts[t] ]

\* except Exception as e: ... return 1
Except ==
    /\ raised' = TRUE
    /\ exit_code' = ExceptReturn
    /\ pc' = "done"

\* main() returns a value on a path that raised nothing.
Return(code) ==
    /\ exit_code' = code
    /\ pc' = "done"
    /\ UNCHANGED raised

\* pipeline = CloudMigrationPipeline(args.config)
Construct ==
    /\ pc = "start"
    /\ data_sources' = config
    /\ pc' = "filter"
    /\ UNCHANGED << config, args, idx, validation_results, exit_code, raised, called,
                    connected, tstate, ops, migration_results, target, cur_ok, run_result >>

\* The constructor fails with ConfigError.
ConstructRaise ==
    /\ pc = "start"
    /\ Except
    /\ UNCHANGED << config, args, data_sources, idx, validation_results, called,
                    connected, tstate, ops, migration_results, target, cur_ok, run_result >>

\* if args.tables: pipeline.data_sources = [...]; then the branch on validate_only.
FilterAndDispatch ==
    /\ pc = "filter"
    /\ data_sources' = IF Truthy(args.tables)
                       THEN FilterSources(data_sources, args.tables.names)
                       ELSE data_sources
    /\ tstate' = [ t \in Tables |->
                     IF t \in Range(data_sources) /\ t \notin Range(data_sources')
                     THEN "skipped" ELSE tstate[t] ]
    /\ pc' = ModeBranch(args.validate_only)
    /\ UNCHANGED << config, args, idx, validation_results, exit_code, raised, called,
                    connected, ops, migration_results, target, cur_ok, run_result >>

\* pipeline.connect_to_source_db() returns True.
ConnectOk ==
    /\ pc = "connect"
    /\ called' = called \cup { "connect_to_source_db" }
    /\ ops' = ops \cup { << "connect", 0 >> }
    /\ connected' = "yes"
    /\ pc' = "loop"
    /\ UNCHANGED << config, args, data_sources, idx, validation_results, exit_code, raised,
                    tstate, migration_results, target, cur_ok, run_result >>

\* (variant: the value connect_to_source_db returns is not looked at)
ConnectFailIgnored ==
    /\ pc = "connect"
    /\ called' = called \cup { "connect_to_source_db" }
    /\ ops' = ops \cup { << "connect", 0 >> }
    /\ connected' = "no"
    /\ pc' = "loop"
    /\ UNCHANGED << config, args, data_sources, idx, validation_results, exit_code, raised,
                    tstate, migration_results, target, cur_ok, run_result >>

\* if not pipeline.connect_to_source_db(): ... return 1
ConnectFail ==
    /\ pc = "connect"
    /\ called' = called \cup { "connect_to_source_db" }
    /\ ops' = ops \cup { << "connect", 0 >> }
    /\ connected' = "no"
    /\ tstate' = SkipPending(tstate, data_sources)
    /\ Return(ExitFail)
    /\ UNCHANGED << config, args, data_sources, idx, validation_results,
                    migration_results, target, cur_ok, run_result >>

\* connect_to_source_db() raises.
ConnectRaise ==
    /\ pc = "connect"
    /\ called' = called \cup { "connect_to_source_db" }
    /\ ops' = ops \cup { << "connect", 0 >> }
    /\ connected' = "no"
    /\ tstate' = SkipPending(tstate, data_sources)
    /\ Except
    /\ UNCHANGED << config, args, data_sources, idx, validation_results,
                    migration_results, target, cur_ok, run_result >>

\* table_name = source['table']; pipeline.validate_migration(table_name) is entered.
ValidateBegin ==
    /\ pc = "loop"
    /\ ~LoopDone(idx, data_sources)
    /\ called' = called \cup { "validate_migration" }
    /\ ops' = ops \cup { << "validate", Current >> }
    /\ tstate' = [ tstate EXCEPT ![Current] = "validating" ]
    /\ pc' = "validating"
    /\ UNCHANGED << config, args, data_sources, idx, validation_results, exit_code, raised,
                    connected, migration_results, target, cur_ok, run_result >>

\* result = pipeline.validate_migration(table_name); validation_results.append(result)
Validated(r) ==
    /\ validation_results' = Append(validation_results, r)
    /\ tstate' = [ tstate EXCEPT ![Current] = IF GetPassed(r) THEN "succeeded" ELSE "failed" ]
    /\ idx' = idx + 1
    /\ pc' = "loop"
    /\ UNCHANGED << config, args, data_sources, exit_code, raised, called,
                    connected, ops, migration_results, target, cur_ok, run_result >>

\* (variant: the loop is left with `return 1` at the first failing result)
ValidateReturnBreakOnFail ==
    /\ pc = "validating"
    /\ \E passed \in BOOLEAN :
          IF passed
          THEN Validated(WellFormed(Current, passed))
          ELSE /\ validation_results' = Append(validation_results, WellFormed(Current, passed))
               /\ tstate' = [ tstate EXCEPT ![Current] = "failed" ]
               /\ Return(ExitFail)
               /\ UNCHANGED << config, args, data_sources, idx, called, connected, ops,
                               migration_results, target, cur_ok, run_result >>

ValidateReturn ==
    /\ pc = "validating"
    /\ \E passed \in BOOLEAN : Validated(WellFormed(Current, passed))

\* validate_migration returns a result that lacks a key.
ValidateReturnMalformed ==
    /\ pc = "validating"
    /\ \E r \in Malformed(Current) : Validated(r)

\* validate_migration raises.
ValidateRaise ==
    /\ pc = "validating"
    /\ tstate' = [ tstate EXCEPT ![Current] = "failed" ]
    /\ Except
    /\ UNCHANGED << config, args, data_sources, idx, validation_results, called,
                    connected, ops, migration_results, target, cur_ok, run_result >>

\* success = all(...); if success: ... return 0; else: failed = [...]; return 1
Aggregate ==
    /\ pc = "loop"
    /\ LoopDone(idx, data_sources)
    /\ IF AllPassed(validation_results)
       THEN Return(ExitOk)
       ELSE IF FailedListRaises(validation_results)
            THEN Except
            ELSE Return(ExitFail)
    /\ UNCHANGED << config, args, data_sources, idx, validation_results, called,
                    connected, tstate, ops, migration_results, target, cur_ok, run_result >>

\* success = pipeline.run_migration() is entered.
RunMigrationCall ==
    /\ pc = "run"
    /\ called' = called \cup { "run_migration" }
    /\ pc' = "m_connect"
    /\ UNCHANGED << config, args, data_sources, idx, validation_results, exit_code, raised,
                    connected, tstate, ops, migration_results, target, cur_ok, run_result >>

\* run_migration connects the SourceConnector.
MConnectOk ==
    /\ pc = "m_connect"
    /\ ops' = ops \cup { << "connect", 0 >> }
    /\ connected' = "yes"
    /\ pc' = "m_table"
    /\ UNCHANGED << config, args, data_sources, idx, validation_results, exit_code, raised,
                    called, tstate, migration_results, target, cur_ok, run_result >>

\* The source connection fails: run_migration returns false with no MigrationResult.
MConnectFail ==
    /\ pc = "m_connect"
    /\ ops' = ops \cup { << "connect", 0 >> }
    /\ connected' = "no"
    /\ tstate' = SkipPending(tstate, data_sources)
    /\ run_result' = FALSE
    /\ pc' = "returned"
    /\ UNCHANGED << config, args, data_sources, idx, validation_results, exit_code, raised,
                    called, migration_results, target, cur_ok >>

\* A step of the in-flight table: from state `from`, performing `op`, to state `to`.
MStep(from, op, to) ==
    /\ pc = "m_table"
    /\ idx <= Len(data_sources)
    /\ tstate[Current] = from
    /\ ops' = ops \cup { << op, Current >> }
    /\ tstate' = [ tstate EXCEPT ![Current] = to ]

\* The in-flight table reaches a terminal state: its MigrationResult is recorded.
MRecord(status) ==
    /\ migration_results' = Append(migration_results, [ table |-> Current, status |-> status ])
    /\ idx' = idx + 1
    /\ cur_ok' = TRUE

MExtractBegin ==
    /\ MStep("pending", "extract", "extracting")
    /\ UNCHANGED << config, args, pc, data_sources, idx, validation_results, exit_code, raised,
                    called, connected, migration_results, target, cur_ok, run_result >>

MExtractOk ==
    /\ MStep("extracting", "transform", "transforming")
    /\ UNCHANGED << config, args, pc, data_sources, idx, validation_results, exit_code, raised,
                    called, connected, migration_results, target, cur_ok, run_result >>

\* ExtractionError: caught, converted into a failed MigrationResult.
MExtractFail ==
    /\ MStep("extracting", "extract", "failed")
    /\ MRecord("failed")
    /\ UNCHANGED << config, args, pc, data_sources, validation_results, exit_code, raised,
                    called, connected, target, run_result >>

MTransformOk ==
    /\ MStep("transforming", "load", "loading")
    /\ UNCHANGED << config, args, pc, data_sources, idx, validation_results, exit_code, raised,
                    called, connected, migration_results, target, cur_ok, run_result >>

\* MappingError: fail-table, not fail-run.
MTransformFail ==
    /\ MStep("transforming", "transform", "failed")
    /\ MRecord("failed")
    /\ UNCHANGED << config, args, pc, data_sources, validation_results, exit_code, raised,
                    called, connected, target, run_result >>

\* TargetLoader.load wrote every batch.
MLoadOk ==
    /\ MStep("loading", "validate", "validating")
    /\ target' = target \cup { Current }
    /\ UNCHANGED << config, args, pc, data_sources, idx, validation_results, exit_code, raised,
                    called, connected, migration_results, cur_ok, run_result >>

\* LoadError, possibly after some batches were committed; validation still follows.
MLoadFail ==
    /\ MStep("loading", "validate", "validating")
    /\ \E partial \in BOOLEAN :
          target' = IF partial THEN target \cup { Current } ELSE target
    /\ cur_ok' = FALSE
    /\ UNCHANGED << config, args, pc, data_sources, idx, validation_results, exit_code, raised,
                    called, connected, migration_results, run_result >>

\* Validator verdict for the in-flight table; the table succeeded iff load and validation did.
MValidate ==
    /\ \E passed \in BOOLEAN :
          LET status == IF cur_ok /\ passed THEN "succeeded" ELSE "failed"
          IN  /\ MStep("validating", "validate", status)
              /\ MRecord(status)
    /\ UNCHANGED << config, args, pc, data_sources, validation_results, exit_code, raised,
                    called, connected, target, run_result >>

\* run_migration returns the logical AND of the per-table outcomes.
MReturn ==
    /\ pc = "m_table"
    /\ idx > Len(data_sources)
    /\ run_result' = \A i \in 1 .. Len(migration_results) :
                          migration_results[i].status = "succeeded"
    /\ pc' = "returned"
    /\ UNCHANGED << config, args, data_sources, idx, validation_results, exit_code, raised,
                    called, connected, tstate, ops, migration_results, target, cur_ok >>

\* run_migration raises.
RunRaise ==
    /\ pc \in { "m_connect", "m_table" }
    /\ tstate' = [ t \in Tables |->
                     IF tstate[t] \in { "extracting", "transforming", "loading", "validating" }
                     THEN "failed" ELSE tstate[t] ]
    /\ Except
    /\ UNCHANGED << config, args, data_sources, idx, validation_results, called,
                    connected, ops, migration_results, target, cur_ok, run_result >>

\* if not success: ... return 1; ...; return 0
AfterRun ==
    /\ pc = "returned"
    /\ IF ~run_result THEN Return(ExitFail) ELSE Return(ExitOk)
    /\ UNCHANGED << config, args, data_sources, idx, validation_results, called,
                    connected, tstate, ops, migration_results, target, cur_ok, run_result >>

Next ==
    \/ Construct
    \/ ConstructRaise
    \/ FilterAndDispatch
    \/ ConnectOk
    \/ ConnectFail
    \/ ValidateBegin
    \/ ValidateReturn
    \/ Aggregate
    \/ RunMigrationCall
    \/ MConnectOk
    \/ MConnectFail
    \/ MExtractBegin
    \/ MExtractOk
    \/ MExtractFail
    \/ MTransformOk
    \/ MTransformFail
    \/ MLoadOk
    \/ MLoadFail
    \/ MValidate
    \/ MReturn
    \/ AfterRun

NextAny ==
    \/ Next
    \/ ConnectRaise
    \/ ValidateReturnMalformed
    \/ ValidateRaise
    \/ RunRaise

Spec == Init /\ [][Next]_vars

SpecAny == Init /\ [][NextAny]_vars

----------------------------------------------------------------------------
(* Vocabulary of the properties. *)

Done == pc = "done"

\* The active (resolved) tables.
Active == Range(data_sources)

\* main() is past the filtering of lines 50-54 (the constructor did not raise).
PastFilter == pc \notin { "start", "filter", "done" } \/ (Done /\ called # {})

\* How many results main() or the pipeline hold for table t.
ValCount(t) ==
    Cardinality({ i \in 1 .. Len(validation_results) : validation_results[i].table_name = t })
MigCount(t) ==
    Cardinality({ i \in 1 .. Len(migration_results) : migration_results[i].table = t })
ResultCount(t) == IF args.validate_only THEN ValCount(t) ELSE MigCount(t)
ResultTotal ==
    IF args.validate_only THEN Len(validation_results) ELSE Len(migration_results)

\* Operations on a table (everything but the connection attempt).
TableOps == { o \in ops : o[1] # "connect" }

Position(s, x) == CHOOSE i \in 1 .. Len(s) : s[i] = x

\* C1: when main() has returned, the exit status is 0 or 1, and it is 0 exactly
\* when every active table's relevant outcome is true: in validate-only mode the
\* source connected and every active table has a result whose validation_passed
\* is true; in full-migration mode run_migration() returned true.  A failed
\* connection and a caught exception give 1.
C1_ExitStatus ==
    Done =>
        /\ exit_code \in { 0, 1 }
        /\ exit_code = 0 <=>
              IF args.validate_only
              THEN /\ connected = "yes"
                   /\ Len(validation_results) = Len(data_sources)
                   /\ \A i \in 1 .. Len(validation_results) :
                         /\ validation_results[i].has_passed
                         /\ validation_results[i].validation_passed
              ELSE ~raised /\ "run_migration" \in called /\ run_result

C1_Witness ==
    /\ Done
    /\ exit_code = 0
    /\ args.validate_only
    /\ Len(validation_results) >= 2

\* C2: in validate-only mode run_migration is never called, nothing is extracted,
\* transformed or loaded, the target's data stays as it was at the start, and the
\* only pipeline methods called are connect_to_source_db and validate_migration.
C2_ValidateOnlyNoLoad ==
    args.validate_only =>
        /\ called \subseteq { "connect_to_source_db", "validate_migration" }
        /\ \A o \in ops : o[1] \in { "connect", "validate" }
        /\ target = {}
        /\ migration_results = <<>>

C2_Witness ==
    /\ Done
    /\ args.validate_only
    /\ called = { "connect_to_source_db", "validate_migration" }
    /\ Len(validation_results) >= 2

C4_FilterState ==
    (PastFilter /\ args.tables.given) =>
        /\ Active = Range(config) \cap Range(args.tables.names)
        /\ Injective(data_sources)
        /\ \A i, j \in 1 .. Len(data_sources) :
              i < j => Position(config, data_sources[i]) < Position(config, data_sources[j])

\* The filtering step raises nothing and goes on to the mode branch.
C4_FilterStep ==
    pc = "filter" => (~raised' /\ pc' \in { "connect", "run" })

\* C4: with --tables given, the filtering step sets the active list to the
\* configured entries whose table is named, in config order and without
\* duplicates; names the config does not hold raise nothing and the run goes on
\* to the mode branch.
C4_Filter == [] C4_FilterState /\ [][C4_FilterStep]_vars

C4_Witness ==
    /\ PastFilter
    /\ Len(args.tables.names) = 2
    /\ args.tables.names[1] > args.tables.names[2]
    /\ Len(data_sources) = 2
    /\ Len(config) = 3
    /\ config[1] > config[3]

\* C5: without --tables the active list is the full configured list, in config
\* order.
C5_NoFilter ==
    (PastFilter /\ ~args.tables.given) => data_sources = config

C5_Witness ==
    /\ PastFilter
    /\ ~args.tables.given
    /\ Len(data_sources) = 3

\* C6: a table operation happens only after the source connection was
\* established; and once the connection has failed no table has been started
\* (each is pending or skipped), no table operation was performed, there is no
\* result, main() is returning and its exit status is 1.
C6_ConnectionGate ==
    /\ TableOps # {} => connected = "yes"
    /\ connected = "no" =>
          /\ \A t \in Tables : tstate[t] \in { "pending", "skipped" }
          /\ TableOps = {}
          /\ validation_results = <<>>
          /\ migration_results = <<>>
          /\ target = {}
          /\ pc \in { "returned", "done" }
          /\ Done => exit_code = 1

C6_Witness ==
    /\ Done
    /\ connected = "no"
    /\ ~raised
    /\ args.validate_only
    /\ Len(data_sources) >= 2

C8_Original ==
    Done => ((\E t \in Range(config) : tstate[t] \in { "failed", "skipped" }) => exit_code = 1)

\* C8 amended: the run-level result is true only when every table of the active
\* list succeeded; a failed or skipped active table makes it false.  Tables the
\* filter excluded are not part of the aggregate.
C8_Aggregate ==
    Done =>
        /\ exit_code = 0 => \A t \in Active : tstate[t] = "succeeded"
        /\ (\E t \in Active : tstate[t] \in { "failed", "skipped" }) => exit_code = 1

C8_Witness ==
    /\ Done
    /\ exit_code = 0
    /\ args.validate_only
    /\ \E t \in Range(config) : tstate[t] = "skipped"
    /\ Active # {}

\* The steps section 4.1's state machine permits.
AllowedSteps ==
    { << "pending", "extracting" >>, << "extracting", "transforming" >>,
      << "transforming", "loading" >>, << "loading", "validating" >>,
      << "validating", "succeeded" >>, << "pending", "skipped" >> }
    \cup { << s, "failed" >> :
             s \in { "pending", "extracting", "transforming", "loading", "validating" } }
    \cup (IF args.validate_only THEN { << "pending", "validating" >> } ELSE {})

\* C9: every change of a table's state is a permitted step.  In full-migration
\* mode: pending, extracting, transforming, loading, validating, succeeded, each
\* from the one before; validate-only mode validates a pending table directly;
\* failed from any non-terminal state; skipped from pending only.  So terminal
\* states are never left and pending is never re-entered.
C9_StateMachine ==
    [][ \A t \in Tables :
           tstate'[t] = tstate[t] \/ << tstate[t], tstate'[t] >> \in AllowedSteps ]_vars

C9_Witness ==
    /\ Done
    /\ \E t \in Tables : tstate[t] = "succeeded"
    /\ \E t \in Tables : tstate[t] = "failed"
    /\ \E t \in Tables : tstate[t] = "skipped"

\* C10: main() always goes on to return; what it returns is 0 or 1; it returns 1
\* when an exception was caught, so 0 only when none was raised.
C10_Total ==
    /\ ~Done => ENABLED NextAny
    /\ Done =>
          /\ exit_code \in { 0, 1 }
          /\ raised => exit_code = 1

C10_Witness ==
    /\ Done
    /\ raised
    /\ args.validate_only
    /\ Len(validation_results) = Len(data_sources)
    /\ FailedListRaises(validation_results)

====
